---- MODULE Spec2Model ----
(***************************************************************************)
(* A model of run_and_plot.py: the orchestrator main (RESOLVE, RUN, LOAD,  *)
(* PLOT), SimulationIndex.get_simulation, run_simulation with its child    *)
(* process and log file handle, load_output_data and the axis              *)
(* equalisation of plot_trajectory.                                        *)
(*                                                                         *)
(* Numbers.  A float is held as an integer count of halves: 2 stands for   *)
(* 1.0 and 1 for 0.5.  Every arithmetic result is rounded to MantBits      *)
(* significant bits, ties to even, as IEEE-754 does with 53 bits.  The     *)
(* values the model reads from files are whole numbers (even counts), so   *)
(* that halving never leaves the grid.                                     *)
(*                                                                         *)
(* Files.  fs maps a path string to a file: whether it exists and, when it *)
(* does, its lines in order; a line is the tuple of its numeric fields.    *)
(* A line is also the unit in which the child writes to its stdout.        *)
(***************************************************************************)
EXTENDS Integers, Sequences, FiniteSets, TLC

VARIABLES
    pc,             \* position of main
    args,           \* parsed command line: simulation_id, output_dir
    indexFile,      \* index.json in the working directory
    outDirExists,   \* whether args.output_dir is an existing directory
    binaryExists,   \* whether args.fpm_binary_path can be executed
    fs,             \* the files: path string -> file
    fs0,            \* the files as they were when main started
    now,            \* the wall clock, in ticks
    index,          \* main's local: the loaded SimulationIndex
    simulation,     \* main's local: the descriptor found, or None
    start_ts,       \* main's local
    end_ts,         \* main's local
    log_file_path,  \* main's local
    plot_path,      \* main's local
    handle,         \* run_simulation's file object f: none, open, closed
    child,          \* the child process: none, running, exited
    childScript,    \* the lines the child is going to write to its stdout
    childWritten,   \* the lines the child has written to its stdout
    childStatus,    \* the child's exit status
    exc,            \* the exception in flight or that ended the run
    df,             \* main's local: the loaded table
    limits,         \* what plot_trajectory computed and passed to set_*lim
    logs,           \* the structured log records emitted, in order
    stages,         \* the stages main has entered, in order
    opened          \* the paths this run has opened for writing

vars == <<pc, args, indexFile, outDirExists, binaryExists, fs, fs0, now, index,
          simulation, start_ts, end_ts, log_file_path, plot_path, handle,
          child, childScript, childWritten, childStatus, exc, df, limits,
          logs, stages, opened>>

---------------------------------------------------------------------------
\* Bounds of the model.

\* Significant bits of a float (53 in the program's binary64).
MantBits == 3
\* The clock runs from 0 to MaxClock ticks.
MaxClock == 3
\* Ticks per second: int(start_ts) drops the ticks within the second.
ClockRes == 2
\* Exit statuses of the child are 0..MaxStatus.
MaxStatus == 2
\* Longest index of the lookup specification.
MaxIndexLen == 2
\* Most rows of a table of the plot specification.
MaxRows == 2

---------------------------------------------------------------------------
\* Values.

None == [absent |-> TRUE]
NoFile == [exists |-> FALSE, kind |-> "none", lines |-> <<>>]
\* A text file holding the lines ls.
File(ls) == [exists |-> TRUE, kind |-> "text", lines |-> ls]
\* The raster image savefig writes.
PngFile == [exists |-> TRUE, kind |-> "png", lines |-> <<>>]
NoTable == [loaded |-> FALSE, x |-> <<>>, y |-> <<>>, z |-> <<>>]
NoLimits == [set |-> FALSE]
NoPath == [dir |-> "", name |-> ""]

\* The float that stands for the whole number n.
Num(n) == 2 * n

RECURSIVE Pow2(_)
Pow2(n) == IF n = 0 THEN 1 ELSE 2 * Pow2(n - 1)

\* Round a magnitude to MantBits significant bits, ties to even.
RoundMag(m) ==
    IF m < Pow2(MantBits) THEN m
    ELSE LET e == CHOOSE k \in 1..30 :
                      /\ Pow2(MantBits + k - 1) <= m
                      /\ m < Pow2(MantBits + k)
             q == m \div Pow2(e)
             r == m % Pow2(e)
             h == Pow2(e - 1)
         IN  (IF r > h \/ (r = h /\ q % 2 = 1) THEN q + 1 ELSE q) * Pow2(e)

fl(v) == IF v < 0 THEN 0 - RoundMag(0 - v) ELSE RoundMag(v)

FSub(a, b) == fl(a - b)
FAdd(a, b) == fl(a + b)
\* / 2.0 and * 0.5 only lower the exponent: no rounding.
FHalf(a) == a \div 2

RECURSIVE SeqMax(_)
SeqMax(s) ==
    IF Len(s) = 1 THEN s[1]
    ELSE LET m == SeqMax(Tail(s)) IN IF s[1] > m THEN s[1] ELSE m

RECURSIVE SeqMin(_)
SeqMin(s) ==
    IF Len(s) = 1 THEN s[1]
    ELSE LET m == SeqMin(Tail(s)) IN IF s[1] < m THEN s[1] ELSE m

---------------------------------------------------------------------------
\* The index.

Simulation(id, entrypoint, output_type, output_path) ==
    [id |-> id, name |-> "n", entrypoint |-> entrypoint,
     output_type |-> output_type, output_path |-> output_path]

SimulationOutputTypeEnum == {"trajectory"}

\* pydantic's validation of one record of index.json.
ValidSimulation(d) ==
    /\ d.id # ""
    /\ d.name # ""
    /\ d.entrypoint # ""
    /\ d.output_type \in SimulationOutputTypeEnum
    /\ d.output_path # ""

\* load_index: whether open, json.load and SimulationIndex(**data) succeed.
LoadIndexOk(f) ==
    /\ f.exists
    /\ \A i \in 1..Len(f.simulations) : ValidSimulation(f.simulations[i])

\* The loop of get_simulation from position i on; falling off the end of
\* the loop returns None.
\* A scan that does not stop at the first match: the last one wins.
RECURSIVE ScanLast(_, _, _, _)
ScanLast(sims, simulation_id, i, found) ==
    IF i > Len(sims) THEN found
    ELSE ScanLast(sims, simulation_id, i + 1,
                  IF sims[i].id = simulation_id THEN sims[i] ELSE found)

RECURSIVE Scan(_, _, _)
Scan(sims, simulation_id, i) ==
    IF i > Len(sims) THEN None
    ELSE IF sims[i].id = simulation_id THEN sims[i]
    ELSE Scan(sims, simulation_id, i + 1)

\* get_simulation without the early return.
get_simulation_last(sims, simulation_id) == ScanLast(sims, simulation_id, 1, None)

get_simulation(sims, simulation_id) == Scan(sims, simulation_id, 1)

---------------------------------------------------------------------------
\* Paths and file names.

\* int(start_ts)
IntTs(ts) == ts \div ClockRes

\* f"{args.simulation_id}_{int(start_ts)}.log"
LogFileName(simulation_id, ts) ==
    simulation_id \o "_" \o ToString(IntTs(ts)) \o ".log"

\* The plot's name formed from start_ts itself, without int().
PlotFileNameRaw(simulation_id, ts) ==
    simulation_id \o "_" \o ToString(ts) \o ".png"

\* f"{args.simulation_id}_{int(start_ts)}.png"
PlotFileName(simulation_id, ts) ==
    simulation_id \o "_" \o ToString(IntTs(ts)) \o ".png"

\* Path(dir) / name, for a relative name
PathJoin(dir, name) == [dir |-> dir, name |-> name]

\* str(path), what open and savefig hand to the operating system
PathStr(p) == p.dir \o "/" \o p.name

---------------------------------------------------------------------------
\* load_output_data.

\* A loader that reads the captured log instead.
ReadTargetLog(sim) == PathStr(log_file_path)

\* The file load_output_data reads.
ReadTarget(sim) == sim.output_path

Column(ls, c) == [i \in 1..Len(ls) |-> ls[i][c]]

\* pl.read_csv(path, has_header=False) then the rename of column_1..3.
\* The read fails on a missing or empty file and on a line longer than the
\* first; the rename fails when the table has no column_3.
LoadOutputData(sim, files) ==
    LET f == files[ReadTarget(sim)] IN
    IF \/ ~f.exists
       \/ f.kind # "text"
       \/ f.lines = <<>>
       \/ \E i \in 1..Len(f.lines) : Len(f.lines[i]) # Len(f.lines[1])
    THEN [ok |-> FALSE, error |-> "ReadError", df |-> NoTable]
    ELSE IF sim.output_type = "trajectory" /\ Len(f.lines[1]) < 3
    THEN [ok |-> FALSE, error |-> "ColumnNotFoundError", df |-> NoTable]
    ELSE [ok |-> TRUE, error |-> "none",
          df |-> [loaded |-> TRUE, x |-> Column(f.lines, 1),
                  y |-> Column(f.lines, 2), z |-> Column(f.lines, 3)]]

---------------------------------------------------------------------------
\* plot_trajectory: lines 93-102.

Max3(a, b, c) ==
    LET ab == IF a > b THEN a ELSE b IN IF ab > c THEN ab ELSE c

Min3(a, b, c) ==
    LET ab == IF a < b THEN a ELSE b IN IF ab < c THEN ab ELSE c

\* xs.max() - xs.min()
Span(s) == FSub(SeqMax(s), SeqMin(s))

\* Half the smallest span instead of the largest.
MaxRangeOfMin(t) == FHalf(Min3(Span(t.x), Span(t.y), Span(t.z)))

\* np.array([...]).max() / 2.0
MaxRange(t) == FHalf(Max3(Span(t.x), Span(t.y), Span(t.z)))

\* (xs.max() + xs.min()) * 0.5
Mid(s) == FHalf(FAdd(SeqMax(s), SeqMin(s)))

\* The arguments of ax.set_xlim, set_ylim and set_zlim.
PlotLimits(t) ==
    LET max_range == MaxRange(t) IN
    [set |-> TRUE,
     max_range |-> max_range,
     mid |-> <<Mid(t.x), Mid(t.y), Mid(t.z)>>,
     lo |-> <<FSub(Mid(t.x), max_range), FSub(Mid(t.y), max_range),
              FSub(Mid(t.z), max_range)>>,
     hi |-> <<FAdd(Mid(t.x), max_range), FAdd(Mid(t.y), max_range),
              FAdd(Mid(t.z), max_range)>>]

---------------------------------------------------------------------------
\* The environment of one invocation.

Row(a, b, c) == <<Num(a), Num(b), Num(c)>>

ExampleTable == <<Row(0, 0, 0), Row(1, 1, 1), Row(2, 0, 2)>>

\* Ten rows of three floats.
TenRows == [i \in 1..10 |-> Row(i % 4, 1, i % 2)]

\* What a child may write to its standard output.
StubOutputs == {<<>>, <<Row(1, 1, 1), Row(0, 2, 1)>>, TenRows}

OutputDir == "output"
DataPath == "data/orbit.csv"
\* A descriptor may name any file, also one in the output directory.
AliasPath == "output/orbit1_1.log"

SimulationIds == {"orbit1", "b"}

AllPaths ==
    {DataPath, AliasPath}
    \cup {OutputDir \o "/" \o id \o "_" \o ToString(t) \o ext :
             id \in SimulationIds, t \in 0..MaxClock, ext \in {".log", ".png"}}

\* What the file at descriptor.output_path may hold before the run.
DataFiles ==
    {NoFile, File(<<>>), File(<< <<Num(1), Num(2)>> >>), File(ExampleTable),
     File(<<Row(1, 2, 3)>>)}

\* What the child may leave at descriptor.output_path.
ChildDataFiles == {File(ExampleTable), File(<<Row(3, 1, 0), Row(1, 1, 1)>>)}

\* A log of an earlier run in the same second.
StaleLog == File(<<Row(3, 3, 3)>>)

IndexFiles ==
    {[exists |-> FALSE, simulations |-> <<>>],
     [exists |-> TRUE, simulations |-> <<>>],
     [exists |-> TRUE, simulations |->
         <<Simulation("orbit1", "e1", "trajectory", DataPath)>>],
     [exists |-> TRUE, simulations |->
         <<Simulation("orbit1", "e1", "trajectory", AliasPath)>>],
     [exists |-> TRUE, simulations |->
         <<Simulation("b", "e1", "trajectory", DataPath),
           Simulation("orbit1", "e1", "trajectory", DataPath),
           Simulation("orbit1", "e2", "trajectory", AliasPath)>>],
     [exists |-> TRUE, simulations |->
         <<Simulation("orbit1", "e1", "heatmap", DataPath)>>],
     [exists |-> TRUE, simulations |->
         <<Simulation("b", "e1", "trajectory", DataPath),
           Simulation("", "e1", "trajectory", DataPath)>>]}

Log(level, event) == [level |-> level, event |-> event]

Init ==
    /\ pc = "start"
    /\ args \in [simulation_id : SimulationIds, output_dir : {OutputDir}]
    /\ indexFile \in IndexFiles
    /\ outDirExists \in BOOLEAN
    /\ binaryExists \in BOOLEAN
    /\ \E data \in DataFiles, stale \in {NoFile, StaleLog} :
           fs = [p \in AllPaths |->
                    IF p = DataPath THEN data
                    ELSE IF p = AliasPath /\ outDirExists THEN stale
                    ELSE NoFile]
    /\ fs0 = fs
    /\ now = 0
    /\ index = <<>>
    /\ simulation = None
    /\ start_ts = 0
    /\ end_ts = 0
    /\ log_file_path = NoPath
    /\ plot_path = NoPath
    /\ handle = "none"
    /\ child = "none"
    /\ childScript = <<>>
    /\ childWritten = <<>>
    /\ childStatus = 0
    /\ exc = "none"
    /\ df = NoTable
    /\ limits = NoLimits
    /\ logs = <<>>
    /\ stages = <<>>
    /\ opened = {}

---------------------------------------------------------------------------
\* main, lines 108-143, and the functions it calls.

\* Lines 110-112: bind the logger, load_index().
LoadIndex ==
    /\ pc = "start"
    /\ stages' = Append(stages, "RESOLVE")
    /\ IF LoadIndexOk(indexFile)
       THEN /\ index' = indexFile.simulations
            /\ pc' = "get_simulation"
            /\ exc' = exc
       ELSE /\ index' = index
            /\ pc' = "failed"
            /\ exc' = "ConfigError"
    /\ UNCHANGED <<args, indexFile, fs0, outDirExists, binaryExists, fs, now,
                   simulation, start_ts, end_ts, log_file_path, plot_path,
                   handle, child, childScript, childWritten, childStatus, df,
                   limits, logs, opened>>

\* Raising at once, with no record logged.
NotFoundRaisesAtOnce == "raise"

\* Where main goes when the lookup returned None: line 116.
NotFoundNext == "log_error"

\* Lines 114-115.
GetSimulation ==
    /\ pc = "get_simulation"
    /\ simulation' = get_simulation(index, args.simulation_id)
    /\ pc' = IF simulation' = None THEN NotFoundNext ELSE "paths"
    /\ UNCHANGED <<args, indexFile, fs0, outDirExists, binaryExists, fs, now,
                   index, start_ts, end_ts, log_file_path, plot_path, handle,
                   child, childScript, childWritten, childStatus, exc, df,
                   limits, logs, stages, opened>>

\* Line 116.
LogNotFound ==
    /\ pc = "log_error"
    /\ logs' = Append(logs, Log("error", "Simulation with provided id not found."))
    /\ pc' = "raise"
    /\ UNCHANGED <<args, indexFile, fs0, outDirExists, binaryExists, fs, now,
                   index, simulation, start_ts, end_ts, log_file_path,
                   plot_path, handle, child, childScript, childWritten,
                   childStatus, exc, df, limits, stages, opened>>

\* Line 117.
RaiseNotFound ==
    /\ pc = "raise"
    /\ exc' = "ValueError"
    /\ pc' = "failed"
    /\ UNCHANGED <<args, indexFile, fs0, outDirExists, binaryExists, fs, now,
                   index, simulation, start_ts, end_ts, log_file_path,
                   plot_path, handle, child, childScript, childWritten,
                   childStatus, df, limits, logs, stages, opened>>

\* Lines 119-127: one reading of the clock, the two paths, the start record.
ComputePaths ==
    /\ pc = "paths"
    /\ \E t \in now..MaxClock :
          /\ now' = t
          /\ start_ts' = t
          /\ log_file_path' =
                 PathJoin(args.output_dir, LogFileName(args.simulation_id, t))
          /\ plot_path' =
                 PathJoin(args.output_dir, PlotFileName(args.simulation_id, t))
    /\ logs' = Append(logs, Log("info", "Running simulation."))
    /\ stages' = Append(stages, "RUN")
    /\ pc' = "open"
    /\ UNCHANGED <<args, indexFile, fs0, outDirExists, binaryExists, fs, index,
                   simulation, end_ts, handle, child, childScript,
                   childWritten, childStatus, exc, df, limits, opened>>

\* open(output_path, "a"): what the file already holds is kept.
OpenAppending(old) == IF old.exists /\ old.kind = "text" THEN old ELSE File(<<>>)

\* open(output_path, "w"), line 64: the file is created or truncated.
OpenTruncated(old) == File(<<>>)

\* Line 64: the with statement opens the log file; without the output
\* directory open raises and the body never runs.
OpenLog ==
    /\ pc = "open"
    /\ IF outDirExists
       THEN /\ fs' = [fs EXCEPT ![PathStr(log_file_path)] = OpenTruncated(@)]
            /\ opened' = opened \cup {PathStr(log_file_path)}
            /\ handle' = "open"
            /\ pc' = "spawn"
            /\ exc' = exc
       ELSE /\ exc' = "FileNotFoundError"
            /\ pc' = "failed"
            /\ UNCHANGED <<fs, opened, handle>>
    /\ UNCHANGED <<args, indexFile, fs0, outDirExists, binaryExists, now, index,
                   simulation, start_ts, end_ts, log_file_path, plot_path,
                   child, childScript, childWritten, childStatus, df, limits,
                   logs, stages>>

\* Lines 65-69: subprocess.run starts the child, or raises when the binary
\* cannot be executed.
SpawnChild ==
    /\ pc = "spawn"
    /\ IF binaryExists
       THEN /\ \E script \in StubOutputs : childScript' = script
            /\ child' = "running"
            /\ pc' = "wait"
            /\ exc' = exc
       ELSE /\ exc' = "FileNotFoundError"
            /\ pc' = "with_exit"
            /\ UNCHANGED <<child, childScript>>
    /\ UNCHANGED <<args, indexFile, fs0, outDirExists, binaryExists, fs, now,
                   index, simulation, start_ts, end_ts, log_file_path,
                   plot_path, handle, childWritten, childStatus, df, limits,
                   logs, stages, opened>>

\* Without stdout=f the child inherits the parent's standard output.
StdoutInherited == FALSE

\* stdout=f, line 68: the child's standard output is the log file.
StdoutRedirected == TRUE

\* The child writes its next line to its standard output.
ChildWrite ==
    /\ child = "running"
    /\ Len(childWritten) < Len(childScript)
    /\ LET line == childScript[Len(childWritten) + 1] IN
          /\ childWritten' = Append(childWritten, line)
          /\ fs' = IF StdoutRedirected
                   THEN [fs EXCEPT ![PathStr(log_file_path)] =
                            File(Append(@.lines, line))]
                   ELSE fs
    /\ UNCHANGED <<pc, args, indexFile, fs0, outDirExists, binaryExists, now,
                   index, simulation, start_ts, end_ts, log_file_path,
                   plot_path, handle, child, childScript, childStatus, exc,
                   df, limits, logs, stages, opened>>

\* The child, an opaque binary, leaves a result at the descriptor's
\* output_path (a file other than its own standard output).
ChildWriteData ==
    /\ child = "running"
    /\ simulation.output_path # PathStr(log_file_path)
    /\ \E f \in ChildDataFiles :
          /\ fs[simulation.output_path] # f
          /\ fs' = [fs EXCEPT ![simulation.output_path] = f]
    /\ UNCHANGED <<pc, args, indexFile, fs0, outDirExists, binaryExists, now,
                   index, simulation, start_ts, end_ts, log_file_path,
                   plot_path, handle, child, childScript, childWritten,
                   childStatus, exc, df, limits, logs, stages, opened>>

\* The child exits, with any status, wherever it is in its output.
ChildExit ==
    /\ child = "running"
    /\ \E status \in 0..MaxStatus : childStatus' = status
    /\ child' = "exited"
    /\ UNCHANGED <<pc, args, indexFile, fs0, outDirExists, binaryExists, fs, now,
                   index, simulation, start_ts, end_ts, log_file_path,
                   plot_path, handle, childScript, childWritten, exc, df,
                   limits, logs, stages, opened>>

\* check=False: the exit status is not looked at.
CheckIgnored(status) == FALSE

\* check=True, line 67: a non-zero status raises CalledProcessError.
CheckRaises(status) == status # 0

\* subprocess.run returns or raises, once the child has exited.
WaitChild ==
    /\ pc = "wait"
    /\ child = "exited"
    /\ exc' = IF CheckRaises(childStatus) THEN "CalledProcessError" ELSE exc
    /\ pc' = "with_exit"
    /\ UNCHANGED <<args, indexFile, fs0, outDirExists, binaryExists, fs, now,
                   index, simulation, start_ts, end_ts, log_file_path,
                   plot_path, handle, child, childScript, childWritten,
                   childStatus, df, limits, logs, stages, opened>>

\* A close after the body only, skipped when the body raises.
HandleLeakedOnError(e) == IF e = "none" THEN "closed" ELSE "open"

\* The file object after the with statement's exit, whatever is in flight.
HandleAfterWith(e) == "closed"

\* Line 64, the end of the with block: close f, then return to main or let
\* the exception go on to main, which does not catch it.
WithExit ==
    /\ pc = "with_exit"
    /\ handle' = HandleAfterWith(exc)
    /\ pc' = IF exc = "none" THEN "finished" ELSE "failed"
    /\ UNCHANGED <<args, indexFile, fs0, outDirExists, binaryExists, fs, now,
                   index, simulation, start_ts, end_ts, log_file_path,
                   plot_path, child, childScript, childWritten, childStatus,
                   exc, df, limits, logs, stages, opened>>

\* Lines 131-136: the second reading of the clock and the finish record.
LogFinished ==
    /\ pc = "finished"
    /\ \E t \in now..MaxClock :
          /\ now' = t
          /\ end_ts' = t
    /\ logs' = Append(logs, Log("info", "Simulation finished."))
    /\ pc' = "load"
    /\ UNCHANGED <<args, indexFile, fs0, outDirExists, binaryExists, fs, index,
                   simulation, start_ts, log_file_path, plot_path, handle,
                   child, childScript, childWritten, childStatus, exc, df,
                   limits, stages, opened>>

\* Line 139: load_output_data(simulation), lines 50-58.
LoadOutput ==
    /\ pc = "load"
    /\ stages' = Append(stages, "LOAD")
    /\ LET r == LoadOutputData(simulation, fs) IN
          /\ df' = r.df
          /\ exc' = IF r.ok THEN exc ELSE r.error
          /\ pc' = IF r.ok THEN "plot" ELSE "failed"
    /\ UNCHANGED <<args, indexFile, fs0, outDirExists, binaryExists, fs, now,
                   index, simulation, start_ts, end_ts, log_file_path,
                   plot_path, handle, child, childScript, childWritten,
                   childStatus, limits, logs, opened>>

\* savefig handed the log's path.
SavefigToLog == PathStr(log_file_path)

\* plt.savefig(output_path), line 104, with output_path = plot_path.
SavefigTarget == PathStr(plot_path)

\* Lines 140-142: plot_trajectory(df, plot_path), lines 72-105.
PlotTrajectory ==
    /\ pc = "plot"
    /\ stages' = Append(stages, "PLOT")
    /\ limits' = PlotLimits(df)
    /\ fs' = [fs EXCEPT ![SavefigTarget] = PngFile]
    /\ opened' = opened \cup {SavefigTarget}
    /\ pc' = "log_plot"
    /\ UNCHANGED <<args, indexFile, fs0, outDirExists, binaryExists, now, index,
                   simulation, start_ts, end_ts, log_file_path, plot_path,
                   handle, child, childScript, childWritten, childStatus,
                   exc, df, logs>>

\* Line 143.
LogPlotSaved ==
    /\ pc = "log_plot"
    /\ logs' = Append(logs, Log("info", "Plot saved."))
    /\ pc' = "done"
    /\ UNCHANGED <<args, indexFile, fs0, outDirExists, binaryExists, fs, now,
                   index, simulation, start_ts, end_ts, log_file_path,
                   plot_path, handle, child, childScript, childWritten,
                   childStatus, exc, df, limits, stages, opened>>

Next ==
    \/ LoadIndex
    \/ GetSimulation
    \/ LogNotFound
    \/ RaiseNotFound
    \/ ComputePaths
    \/ OpenLog
    \/ SpawnChild
    \/ ChildWrite
    \/ ChildWriteData
    \/ ChildExit
    \/ WaitChild
    \/ WithExit
    \/ LogFinished
    \/ LoadOutput
    \/ PlotTrajectory
    \/ LogPlotSaved

Spec == Init /\ [][Next]_vars

---------------------------------------------------------------------------
\* get_simulation on its own: every loaded index of at most MaxIndexLen
\* descriptors, every query.

LookupSimulations ==
    {Simulation(id, e, "trajectory", path) :
        id \in SimulationIds, e \in {"e1", "e2"}, path \in {DataPath, AliasPath}}

RECURSIVE SeqsUpTo(_, _)
SeqsUpTo(S, n) ==
    IF n = 0 THEN {<<>>}
    ELSE LET shorter == SeqsUpTo(S, n - 1) IN
         shorter \cup {Append(q, e) : q \in shorter, e \in S}

InitLookup ==
    /\ pc = "get_simulation"
    /\ args \in [simulation_id : SimulationIds \cup {"zz"}, output_dir : {OutputDir}]
    /\ index \in SeqsUpTo(LookupSimulations, MaxIndexLen)
    /\ indexFile = [exists |-> TRUE, simulations |-> index]
    /\ outDirExists = TRUE
    /\ binaryExists = TRUE
    /\ fs = [p \in AllPaths |-> NoFile]
    /\ fs0 = fs
    /\ now = 0
    /\ simulation = None
    /\ start_ts = 0
    /\ end_ts = 0
    /\ log_file_path = NoPath
    /\ plot_path = NoPath
    /\ handle = "none"
    /\ child = "none"
    /\ childScript = <<>>
    /\ childWritten = <<>>
    /\ childStatus = 0
    /\ exc = "none"
    /\ df = NoTable
    /\ limits = NoLimits
    /\ logs = <<>>
    /\ stages = <<"RESOLVE">>
    /\ opened = {}

NextLookup == GetSimulation

SpecLookup == InitLookup /\ [][NextLookup]_vars

---------------------------------------------------------------------------
\* plot_trajectory on its own: every table of one to MaxRows rows over a
\* few coordinates, and the table of the worked example.

\* Whole numbers that are floats of MantBits bits.
PlotCoordsXY == {v \in {Num(0), Num(2), Num(4), Num(5)} : fl(v) = v}
PlotCoordsZ == {Num(0), Num(1)}

PlotRows == {<<x, y, z>> : x \in PlotCoordsXY, y \in PlotCoordsXY, z \in PlotCoordsZ}

PlotTables == (SeqsUpTo(PlotRows, MaxRows) \ {<<>>}) \cup {ExampleTable}

InitPlot ==
    /\ pc = "plot"
    /\ args = [simulation_id |-> "orbit1", output_dir |-> OutputDir]
    /\ simulation = Simulation("orbit1", "e1", "trajectory", DataPath)
    /\ index = <<simulation>>
    /\ indexFile = [exists |-> TRUE, simulations |-> index]
    /\ outDirExists = TRUE
    /\ binaryExists = TRUE
    /\ \E rows \in PlotTables :
          /\ fs = [p \in AllPaths |->
                      IF p = DataPath THEN File(rows)
                      ELSE IF p = PathStr(PathJoin(OutputDir, LogFileName("orbit1", 0)))
                      THEN File(<<>>)
                      ELSE NoFile]
          /\ df = LoadOutputData(simulation, fs).df
    /\ fs0 = [fs EXCEPT
                 ![PathStr(PathJoin(OutputDir, LogFileName("orbit1", 0)))] = NoFile]
    /\ now = 0
    /\ start_ts = 0
    /\ end_ts = 0
    /\ log_file_path = PathJoin(OutputDir, LogFileName("orbit1", 0))
    /\ plot_path = PathJoin(OutputDir, PlotFileName("orbit1", 0))
    /\ handle = "closed"
    /\ child = "exited"
    /\ childScript = <<>>
    /\ childWritten = <<>>
    /\ childStatus = 0
    /\ exc = "none"
    /\ limits = NoLimits
    /\ logs = <<Log("info", "Running simulation."),
                Log("info", "Simulation finished.")>>
    /\ stages = <<"RESOLVE", "RUN", "LOAD">>
    /\ opened = {PathStr(log_file_path)}

NextPlot == PlotTrajectory

SpecPlot == InitPlot /\ [][NextPlot]_vars

---------------------------------------------------------------------------
\* Vocabulary of the properties.

StageOrder == <<"RESOLVE", "RUN", "LOAD", "PLOT">>

IsPrefix(s, t) ==
    /\ Len(s) <= Len(t)
    /\ \A i \in 1..Len(s) : s[i] = t[i]

Entered(stage) == \E i \in 1..Len(stages) : stages[i] = stage

\* The positions of the index whose id is the one asked for.
Matches == {i \in 1..Len(index) : index[i].id = args.simulation_id}

\* main is past run_simulation, which returned.
RunReturned == pc \in {"finished", "load", "plot", "log_plot", "done"}

\* run_simulation raised and the exception has reached main.
RunRaised == pc = "failed" /\ stages = <<"RESOLVE", "RUN">>

LogPaths ==
    {OutputDir \o "/" \o id \o "_" \o ToString(t) \o ".log" :
        id \in SimulationIds, t \in 0..MaxClock}

PngPaths ==
    {OutputDir \o "/" \o id \o "_" \o ToString(t) \o ".png" :
        id \in SimulationIds, t \in 0..MaxClock}

\* The files under the output directory that this run made: a path counts
\* when the run wrote it and the file is there now, by its content's kind.
ProducedLogs == {p \in opened : fs[p].exists /\ fs[p].kind = "text"}
ProducedPngs == {p \in opened : fs[p].exists /\ fs[p].kind = "png"}

CompletionEvents ==
    {i \in 1..Len(logs) :
        /\ logs[i].level = "info"
        /\ logs[i].event \in {"Simulation finished.", "Plot saved."}}

---------------------------------------------------------------------------
\* C1: the stages are entered in the order RESOLVE, RUN, LOAD, PLOT, none
\* twice; a stage that fails is the last one entered, the run then ends
\* with an error, and nothing happens after that.

ResolveFails ==
    Entered("RESOLVE") /\ (~LoadIndexOk(indexFile) \/ (pc # "start" /\ Matches = {}))

RunFails ==
    /\ Entered("RUN")
    /\ \/ ~outDirExists
       \/ ~binaryExists
       \/ child = "exited" /\ childStatus # 0

LoadFails == Entered("LOAD") /\ ~df.loaded

C1_State ==
    /\ IsPrefix(stages, StageOrder)
    /\ ResolveFails => stages = <<"RESOLVE">> /\ pc # "done"
    /\ RunFails => stages = <<"RESOLVE", "RUN">> /\ pc # "done"
    /\ LoadFails => stages = <<"RESOLVE", "RUN", "LOAD">> /\ pc = "failed"
    /\ pc = "failed" <=> exc # "none" /\ pc # "with_exit"
    /\ pc = "done" => stages = StageOrder /\ exc = "none"

\* C1: in every state the stages entered are a prefix of RESOLVE, RUN, LOAD,
\* PLOT and a failed stage is the last; once main has failed, it stays
\* failed and enters no further stage.
C1_StagesInOrderFailureTerminal ==
    /\ []C1_State
    /\ [][pc = "failed" => pc' = "failed" /\ stages' = stages]_vars

C1_Witness ==
    /\ pc = "failed"
    /\ stages = <<"RESOLVE", "RUN">>
    /\ child = "exited"
    /\ childStatus # 0

---------------------------------------------------------------------------
\* C2: get_simulation returns the first descriptor, in index order, whose
\* id is the query; it returns None, and raises nothing, exactly when no
\* descriptor has that id; what it returns never has another id.

C2_FirstMatchOrNone ==
    pc # "get_simulation" /\ pc # "start" /\ exc # "ConfigError" =>
        /\ Matches = {} <=> simulation = None
        /\ \A i \in Matches :
              (\A j \in Matches : i <= j) => simulation = index[i]
        /\ simulation # None => simulation.id = args.simulation_id
        /\ Matches = {} => exc \in {"none", "ValueError"}

C2_Witness ==
    /\ pc = "paths"
    /\ \E i, j \in Matches : i < j /\ index[i] # index[j] /\ simulation = index[i]

---------------------------------------------------------------------------
\* C3: when the id asked for is not in the loaded index, main emits an
\* error record and only then raises; RUN is never entered, no child is
\* started and no file is created or changed.

C3_NotFoundLoggedThenRaised ==
    pc \notin {"start", "get_simulation"} /\ LoadIndexOk(indexFile) /\ Matches = {} =>
        /\ pc \in {"log_error", "raise", "failed"}
        /\ pc \in {"raise", "failed"} =>
              /\ logs # <<>>
              /\ logs[Len(logs)] = Log("error", "Simulation with provided id not found.")
        /\ pc = "failed" => exc = "ValueError"
        /\ pc # "failed" => exc = "none"
        /\ stages = <<"RESOLVE">>
        /\ child = "none"
        /\ handle = "none"
        /\ opened = {}
        /\ fs = fs0

C3_Witness ==
    /\ pc = "failed"
    /\ exc = "ValueError"
    /\ Len(index) > 0

---------------------------------------------------------------------------
\* C4: when the child exits with a status other than 0, run_simulation
\* raises, and the log file stays on disk holding exactly what the child
\* wrote to its standard output.

C4_NonZeroExitRaisesLogKept ==
    child = "exited" /\ childStatus # 0 =>
        /\ pc \in {"wait", "with_exit", "failed"}
        /\ pc \in {"with_exit", "failed"} => exc = "CalledProcessError"
        /\ fs[PathStr(log_file_path)] = File(childWritten)

C4_Witness ==
    /\ pc = "failed"
    /\ exc = "CalledProcessError"
    /\ childWritten # <<>>
    /\ Len(childWritten) < Len(childScript)
    /\ fs0[PathStr(log_file_path)].exists

---------------------------------------------------------------------------
\* C5: when the child exits with status 0, run_simulation returns only
\* after the exit, and the log file then holds exactly what the child wrote
\* to its standard output: what the file held before is gone.

C5_ZeroExitLogIsStdout ==
    /\ RunReturned =>
          /\ child = "exited"
          /\ childStatus = 0
          /\ fs[PathStr(log_file_path)] = File(childWritten)
    /\ child = "exited" /\ childStatus = 0 /\ pc = "with_exit" =>
          /\ exc = "none"
          /\ fs[PathStr(log_file_path)] = File(childWritten)

C5_Witness ==
    /\ pc = "finished"
    /\ fs0[PathStr(log_file_path)].exists
    /\ fs0[PathStr(log_file_path)].lines # <<>>
    /\ childWritten # <<>>
    /\ fs[PathStr(log_file_path)] # fs0[PathStr(log_file_path)]

---------------------------------------------------------------------------
\* C6: the end-to-end scenario.  The index holds one trajectory descriptor,
\* "orbit1"; the stub writes ten rows of three floats to its standard
\* output and exits 0; main is run with --simulation_id orbit1.

C6_Scenario ==
    /\ indexFile.exists
    /\ Len(indexFile.simulations) = 1
    /\ indexFile.simulations[1].id = "orbit1"
    /\ indexFile.simulations[1].output_type = "trajectory"
    /\ args.simulation_id = "orbit1"
    /\ child = "exited"
    /\ childStatus = 0
    /\ childWritten = TenRows
    /\ pc \in {"done", "failed"}

C6_Outcome ==
    /\ pc = "done"
    /\ Cardinality(ProducedLogs) = 1
    /\ Cardinality(ProducedPngs) = 1
    /\ ProducedLogs \subseteq LogPaths
    /\ ProducedPngs \subseteq PngPaths
    /\ Cardinality(CompletionEvents) = 2

\* The file at the descriptor's output_path is a table load_output_data
\* accepts: text, at least one row, every row of the same three or more
\* fields.
DataFileIsTable ==
    LET f == fs[simulation.output_path] IN
    /\ f.exists
    /\ f.kind = "text"
    /\ Len(f.lines) >= 1
    /\ \A i \in 1..Len(f.lines) :
          Len(f.lines[i]) >= 3 /\ Len(f.lines[i]) = Len(f.lines[1])

\* C6 as stated: in the scenario the run ends with exactly one .log and one
\* .png produced and two info-level completion records.
C6_Original == C6_Scenario => C6_Outcome

\* C6 as amended: the same, when the file at the descriptor's output_path
\* holds a table of at least one row and three columns when LOAD runs.
C6_EndToEndGivenDataFile == C6_Scenario /\ DataFileIsTable => C6_Outcome

C6_Witness ==
    /\ C6_Scenario
    /\ pc = "done"
    /\ simulation.output_path = DataPath
    /\ fs[PathStr(log_file_path)] = File(TenRows)
    /\ fs[PathStr(plot_path)] = PngFile

---------------------------------------------------------------------------
\* C7: the two paths are computed once, before the child starts, from the
\* same id and the same start timestamp: <output-dir>/<id>_<int(ts)>.log
\* and .png, so the artifacts share directory and stem.

C7_Stem == args.simulation_id \o "_" \o ToString(start_ts \div ClockRes)

C7_State ==
    /\ Entered("RUN") =>
          /\ log_file_path = [dir |-> args.output_dir, name |-> C7_Stem \o ".log"]
          /\ plot_path = [dir |-> args.output_dir, name |-> C7_Stem \o ".png"]
          /\ opened \subseteq {args.output_dir \o "/" \o C7_Stem \o ".log",
                               args.output_dir \o "/" \o C7_Stem \o ".png"}
    /\ ~Entered("RUN") => child = "none" /\ opened = {}

\* C7: the two paths always have the form above, and once RUN is entered
\* neither they nor start_ts are assigned again.
C7_PathsOnceSameStem ==
    /\ []C7_State
    /\ [][Entered("RUN") =>
             /\ log_file_path' = log_file_path
             /\ plot_path' = plot_path
             /\ start_ts' = start_ts]_vars

C7_Witness ==
    /\ pc = "done"
    /\ start_ts % ClockRes # 0
    /\ end_ts \div ClockRes # start_ts \div ClockRes
    /\ Cardinality(opened) = 2

---------------------------------------------------------------------------
\* C8: plot_trajectory's limits.  The statements below are about the
\* numbers the floats stand for: the operators +, - and * are exact.

C8_Axes == 1..3
C8_Col(a) == IF a = 1 THEN df.x ELSE IF a = 2 THEN df.y ELSE df.z
C8_ExactSpan(a) == SeqMax(C8_Col(a)) - SeqMin(C8_Col(a))

\* max_range is half the largest span, each axis is centred on its own
\* midpoint, all axes are 2*max_range long and hold every data point.
C8_Geometry ==
    /\ 2 * limits.max_range = Max3(C8_ExactSpan(1), C8_ExactSpan(2), C8_ExactSpan(3))
    /\ \A a \in C8_Axes :
          /\ 2 * limits.mid[a] = SeqMax(C8_Col(a)) + SeqMin(C8_Col(a))
          /\ limits.lo[a] = limits.mid[a] - limits.max_range
          /\ limits.hi[a] = limits.mid[a] + limits.max_range
          /\ limits.hi[a] - limits.lo[a] = 2 * limits.max_range
          /\ \A i \in 1..Len(C8_Col(a)) :
                limits.lo[a] <= C8_Col(a)[i] /\ C8_Col(a)[i] <= limits.hi[a]

C8_Example ==
    <<df.x, df.y, df.z>> = <<Column(ExampleTable, 1), Column(ExampleTable, 2),
                             Column(ExampleTable, 3)>>
    => /\ limits.max_range = Num(1)
       /\ limits.mid = <<Num(1), 1, Num(1)>>

\* No operation of the computation has to round: every difference and sum
\* it forms is a float as it stands.
C8_NothingRounds ==
    \A a \in C8_Axes :
        /\ fl(C8_ExactSpan(a)) = C8_ExactSpan(a)
        /\ fl(SeqMax(C8_Col(a)) + SeqMin(C8_Col(a))) = SeqMax(C8_Col(a)) + SeqMin(C8_Col(a))
        /\ fl(limits.mid[a] - limits.max_range) = limits.mid[a] - limits.max_range
        /\ fl(limits.mid[a] + limits.max_range) = limits.mid[a] + limits.max_range

\* C8 as stated: for every table of at least one row.
C8_Original == limits.set => C8_Geometry /\ C8_Example

\* C8 as amended: the geometry holds whenever no step of the computation
\* rounds; in every case max_range is not negative, each axis' limits
\* enclose its midpoint, and the worked example gives 1.0 and (1, 0.5, 1).
C8_LimitsWhenExact ==
    limits.set =>
        /\ C8_NothingRounds => C8_Geometry
        /\ limits.max_range >= 0
        /\ \A a \in C8_Axes :
              limits.lo[a] <= limits.mid[a] /\ limits.mid[a] <= limits.hi[a]
        /\ C8_Example

C8_Witness ==
    /\ limits.set
    /\ Len(df.x) = 3
    /\ <<df.x[3], df.y[3], df.z[3]>> = Row(2, 0, 2)
    /\ <<df.x[2], df.y[2], df.z[2]>> = Row(1, 1, 1)
    /\ limits.max_range = Num(1)
    /\ limits.lo = <<Num(0), 0 - 1, Num(0)>>
    /\ limits.hi = <<Num(2), 3, Num(2)>>

---------------------------------------------------------------------------
\* C9: the log file handle is closed on every way out of run_simulation:
\* return, non-zero exit, child not started; on the non-zero exit it is
\* closed before main sees the error.

C9_HandleReleased ==
    /\ RunReturned => handle = "closed"
    /\ RunRaised => handle # "open"
    /\ RunRaised /\ PathStr(log_file_path) \in opened => handle = "closed"
    /\ exc = "CalledProcessError" /\ pc # "with_exit" => handle = "closed"
    /\ handle = "open" => pc \in {"spawn", "wait", "with_exit"}

C9_Witness ==
    /\ pc = "failed"
    /\ exc = "FileNotFoundError"
    /\ child = "none"
    /\ handle = "closed"

---------------------------------------------------------------------------
\* C10: the table handed to PLOT is a function of the file at the
\* descriptor's output_path as it is when LOAD runs, and of nothing else:
\* its columns are the first three fields of that file's lines, whatever
\* the child wrote to its standard output; LOAD fails exactly when that
\* file is no such table, also after a RUN that succeeded.

====
